---- MODULE Spec2Model ----
(***************************************************************************)
(* Report lifecycle of the Phenomena data-access layer (db/index.js):      *)
(* getOpenReports, createReport, _getReport, closeReport and               *)
(* createReportComment running as interleaved async calls over one shared  *)
(* relational store.  Every `await client.query(...)` is one atomic store  *)
(* statement; the JavaScript between two awaits runs with the statement    *)
(* that follows it, except where it reads the wall clock.                  *)
(***************************************************************************)
EXTENDS Integers, Sequences, FiniteSets, TLC

\* ---------------------------------------------------------------- bounds
MaxReports  == 2      \* rows the reports table may hold
MaxComments == 2      \* rows the comments table may hold
MaxTime     == 4      \* last clock tick explored
MaxCalls    == 4      \* calls started over one run
NumProcs    == 2      \* calls that can be in flight together

\* ------------------------------------------------------ program constants
Day    == 2           \* interval '1 day', in clock ticks
Second == 2           \* clock ticks per second: Date.parse of a Date keeps whole seconds

Procs     == 1..NumProcs
ReportIds == 1..(MaxReports + 1)   \* ids a caller may pass; the last one never exists
Passwords == {"p1", "p2"}
Contents  == {"confirmed"}
Titles    == {"Leak"}

VARIABLES
    reports,     \* table reports: sequence of rows, row i has id i
    comments,    \* table comments: sequence of rows in insertion order
    now,         \* the clock (CURRENT_TIMESTAMP, Date.now())
    calls,       \* per process: the call in flight, its locals and its outcome
    started,     \* number of calls started so far
    closedOk     \* ids of reports on which a closeReport has returned its acknowledgment

vars == <<reports, comments, now, calls, started, closedOk>>

\* ------------------------------------------------------------- messages
ErrCloseNotFound  == "Report does not exist with that id"
ErrPassword       == "Password incorrect for this report, please try again"
ErrAlreadyClosed  == "This report has already been closed"
ErrNotUpdated     == "Report not updated"
MsgClosed         == "Report successfully closed!"
ErrCommentNotFound == "That report does not exist, no comment has been made"
ErrCommentClosed  == "That report has been closed, no comment has been made"
ErrCommentExpired == "The discussion time on this report has expired, no comment has been made"
ErrSyntax         == "syntax error at or near \")\""
ErrStore          == "store failure"
NoError           == ""

\* ------------------------------------------------------ store primitives
\* column defaults of table reports
DefaultIsOpen == TRUE
DefaultExpirationDate(t) == t + Day

\* Date.parse(report.expirationDate): the Date is turned into its string
\* form, which has no milliseconds, and parsed back
DateParse(d) == d - (d % Second)

\* delete report.password
DeletePassword(row) == [f \in (DOMAIN row) \ {"password"} |-> row[f]]

\* SELECT * FROM reports WHERE id = $1
SelectReportById(reportId) ==
    SelectSeq(reports, LAMBDA row : row.id = reportId)

\* an idle process: no call in flight
IdleCall ==
    [op |-> "none", pc |-> "idle", reportId |-> 0, password |-> "", content |-> "",
     rows |-> <<>>, result |-> <<>>, error |-> NoError, late |-> FALSE]

TypeOK ==
    /\ Len(reports) <= MaxReports
    /\ Len(comments) <= MaxComments
    /\ now \in 0..MaxTime
    /\ started \in 0..MaxCalls
    /\ closedOk \subseteq 1..MaxReports
    /\ \A i \in DOMAIN reports : reports[i].id = i
    /\ \A p \in Procs : calls[p].pc \in
          {"idle", "created", "close_update", "comment_check", "comment_insert",
           "comment_update", "get_comments", "done"}

Init ==
    /\ reports = <<>>
    /\ comments = <<>>
    /\ now = 0
    /\ calls = [p \in Procs |-> IdleCall]
    /\ started = 0
    /\ closedOk = {}

\* --------------------------------------------------------------- clock
Tick ==
    /\ now < MaxTime
    /\ now' = now + 1
    /\ UNCHANGED <<reports, comments, calls, started, closedOk>>

\* the caller has consumed the outcome; the process may run another call
Finish(p) ==
    /\ calls[p].pc = "done"
    /\ calls' = [calls EXCEPT ![p] = IdleCall]
    /\ UNCHANGED <<reports, comments, now, started, closedOk>>

\* ---------------------------------------------------------- createReport
\* INSERT INTO reports (title, location, description, password) ... RETURNING *
InsertReport(title, password) ==
    [id |-> Len(reports) + 1, title |-> title, password |-> password,
     isOpen |-> DefaultIsOpen, expirationDate |-> DefaultExpirationDate(now)]

createReport(p) ==
    /\ calls[p].pc = "idle"
    /\ started < MaxCalls
    /\ Len(reports) < MaxReports
    /\ \E title \in Titles, password \in Passwords :
         LET newReport == InsertReport(title, password) IN
           /\ reports' = Append(reports, newReport)
           /\ calls' = [calls EXCEPT ![p] =
                  [IdleCall EXCEPT !.op = "createReport", !.pc = "done",
                                   !.password = password,
                                   !.result = <<DeletePassword(newReport)>>]]
    /\ started' = started + 1
    /\ UNCHANGED <<comments, now, closedOk>>

\* ----------------------------------------------------------- closeReport
\* closeReport as it would be without its "already closed" guard
CloseGuardNoOpenCheck(rows, password) ==
    IF rows = <<>> THEN ErrCloseNotFound
    ELSE IF rows[1].password # password THEN ErrPassword
    ELSE NoError

\* closeReport as it would be without its password guard
CloseGuardNoPasswordCheck(rows, password) ==
    IF rows = <<>> THEN ErrCloseNotFound
    ELSE IF ~rows[1].isOpen THEN ErrAlreadyClosed
    ELSE NoError

\* closeReport as it would be without its existence guard (report?.password)
CloseGuardNoExistCheck(rows, password) ==
    IF rows = <<>> THEN NoError
    ELSE IF rows[1].password # password THEN ErrPassword
    ELSE IF ~rows[1].isOpen THEN ErrAlreadyClosed
    ELSE NoError

\* closeReport testing isOpen before the password
CloseGuardOpenFirst(rows, password) ==
    IF rows = <<>> THEN ErrCloseNotFound
    ELSE IF ~rows[1].isOpen THEN ErrAlreadyClosed
    ELSE IF rows[1].password # password THEN ErrPassword
    ELSE NoError

\* the three guards of closeReport on the row _getReport returned;
\* the first failing one gives the error
CloseGuard(rows, password) ==
    IF rows = <<>> THEN ErrCloseNotFound
    ELSE IF rows[1].password # password THEN ErrPassword
    ELSE IF ~rows[1].isOpen THEN ErrAlreadyClosed
    ELSE NoError

\* UPDATE reports SET "isOpen" = false WHERE id = $1 : the rows it touches
CloseUpdateMatches(row, reportId) == row.id = reportId

\* an UPDATE that flips the flag instead of clearing it
CloseUpdateRowToggle(row) == [row EXCEPT !.isOpen = ~row.isOpen]

\* an UPDATE that also blanks the password of the closed report
CloseUpdateRowClearPassword(row) == [row EXCEPT !.isOpen = FALSE, !.password = ""]

\* ... and what it does to a row it touches
CloseUpdateRow(row) == [row EXCEPT !.isOpen = FALSE]

\* const report = await _getReport(reportId), then the guards
CloseGetReport(p) ==
    /\ calls[p].pc = "idle"
    /\ started < MaxCalls
    /\ \E reportId \in ReportIds, password \in Passwords :
         LET rows == SelectReportById(reportId)
             err  == CloseGuard(rows, password) IN
           calls' = [calls EXCEPT ![p] =
               [IdleCall EXCEPT !.op = "closeReport",
                                !.pc = IF err = NoError THEN "close_update" ELSE "done",
                                !.reportId = reportId, !.password = password,
                                !.rows = rows, !.error = err,
                                !.late = reportId \in closedOk]]
    /\ started' = started + 1
    /\ UNCHANGED <<reports, comments, now, closedOk>>

\* the UPDATE, the rowCount test and the return
CloseUpdate(p) ==
    /\ calls[p].pc = "close_update"
    /\ LET reportId == calls[p].reportId
           rowCount == Cardinality({i \in DOMAIN reports :
                                       CloseUpdateMatches(reports[i], reportId)}) IN
         /\ reports' = [i \in DOMAIN reports |->
                          IF CloseUpdateMatches(reports[i], reportId)
                          THEN CloseUpdateRow(reports[i]) ELSE reports[i]]
         /\ IF rowCount = 0
            THEN /\ calls' = [calls EXCEPT ![p].pc = "done", ![p].error = ErrNotUpdated]
                 /\ closedOk' = closedOk
            ELSE /\ calls' = [calls EXCEPT ![p].pc = "done",
                                           ![p].result = <<[message |-> MsgClosed]>>]
                 /\ closedOk' = closedOk \cup {reportId}
    /\ UNCHANGED <<comments, now, started>>

\* --------------------------------------------------- createReportComment
\* createReportComment with the expiry comparison the wrong way round
CommentGuardExpiryReversed(rows, t) ==
    IF rows = <<>> THEN ErrCommentNotFound
    ELSE IF ~rows[1].isOpen THEN ErrCommentClosed
    ELSE IF DateParse(rows[1].expirationDate) > t THEN ErrCommentExpired
    ELSE NoError

\* createReportComment testing expiry before isOpen
CommentGuardExpiryFirst(rows, t) ==
    IF rows = <<>> THEN ErrCommentNotFound
    ELSE IF DateParse(rows[1].expirationDate) < t THEN ErrCommentExpired
    ELSE IF ~rows[1].isOpen THEN ErrCommentClosed
    ELSE NoError

\* createReportComment without its isOpen guard
CommentGuardNoOpenCheck(rows, t) ==
    IF rows = <<>> THEN ErrCommentNotFound
    ELSE IF DateParse(rows[1].expirationDate) < t THEN ErrCommentExpired
    ELSE NoError

\* createReportComment without its expiry guard
CommentGuardNoExpiryCheck(rows, t) ==
    IF rows = <<>> THEN ErrCommentNotFound
    ELSE IF ~rows[1].isOpen THEN ErrCommentClosed
    ELSE NoError

\* the three guards of createReportComment, evaluated at clock value t
CommentGuard(rows, t) ==
    IF rows = <<>> THEN ErrCommentNotFound
    ELSE IF ~rows[1].isOpen THEN ErrCommentClosed
    ELSE IF DateParse(rows[1].expirationDate) < t THEN ErrCommentExpired
    ELSE NoError

\* INSERT INTO comments ("reportId", content) VALUES ($1, $2) RETURNING *
InsertComment(reportId, content) ==
    [id |-> Len(comments) + 1, reportId |-> reportId, content |-> content]

\* an UPDATE that forgets the interval
NewExpirationDateNoInterval(row, t) == t

\* an UPDATE that adds the day to the old expirationDate
NewExpirationDateAdditive(row, t) == row.expirationDate + Day

\* SET "expirationDate" = CURRENT_TIMESTAMP + interval '1 day'
NewExpirationDate(row, t) == t + Day

\* calls that have passed or may still pass the guards and insert a row
PendingInserts ==
    Cardinality({q \in Procs : calls[q].pc \in {"comment_check", "comment_insert"}})

\* const report = await _getReport(reportId)
CommentGetReport(p) ==
    /\ calls[p].pc = "idle"
    /\ started < MaxCalls
    /\ Len(comments) + PendingInserts < MaxComments
    /\ \E reportId \in ReportIds, content \in Contents :
         calls' = [calls EXCEPT ![p] =
             [IdleCall EXCEPT !.op = "createReportComment", !.pc = "comment_check",
                              !.reportId = reportId, !.content = content,
                              !.rows = SelectReportById(reportId),
                              !.late = reportId \in closedOk]]
    /\ started' = started + 1
    /\ UNCHANGED <<reports, comments, now, closedOk>>

\* the guards, run when the row has arrived; the expiry guard reads Date.now()
CommentCheck(p) ==
    /\ calls[p].pc = "comment_check"
    /\ LET err == CommentGuard(calls[p].rows, now) IN
         calls' = [calls EXCEPT ![p].pc = IF err = NoError THEN "comment_insert" ELSE "done",
                                ![p].error = err]
    /\ UNCHANGED <<reports, comments, now, started, closedOk>>

\* the INSERT statement
CommentInsert(p) ==
    /\ calls[p].pc = "comment_insert"
    /\ LET newComment == InsertComment(calls[p].reportId, calls[p].content) IN
         /\ comments' = Append(comments, newComment)
         /\ calls' = [calls EXCEPT ![p].pc = "comment_update", ![p].result = <<newComment>>]
    /\ UNCHANGED <<reports, now, started, closedOk>>

\* the UPDATE statement and the return of newComment
CommentUpdate(p) ==
    /\ calls[p].pc = "comment_update"
    /\ reports' = [i \in DOMAIN reports |->
                     IF reports[i].id = calls[p].reportId
                     THEN [reports[i] EXCEPT !.expirationDate = NewExpirationDate(reports[i], now)]
                     ELSE reports[i]]
    /\ calls' = [calls EXCEPT ![p].pc = "done"]
    /\ UNCHANGED <<comments, now, started, closedOk>>

\* a catch block that swallows the error
RethrowSwallowed(error) == NoError

\* catch (error) { throw error; }
Rethrow(error) == error

\* the UPDATE statement is rejected by the store (timeout, lost connection):
\* the row is not written and the call throws, after its INSERT has run
CommentUpdateFails(p) ==
    /\ calls[p].pc = "comment_update"
    /\ calls' = [calls EXCEPT ![p].pc = "done", ![p].result = <<>>,
                              ![p].error = Rethrow(ErrStore)]
    /\ UNCHANGED <<reports, comments, now, started, closedOk>>

\* -------------------------------------------------------- getOpenReports
\* the first query without its WHERE clause
SelectAllReports(rs) == rs

\* SELECT * FROM reports WHERE "isOpen" = true
SelectOpenReports(rs) == SelectSeq(rs, LAMBDA row : row.isOpen = TRUE)

\* SELECT * FROM comments WHERE "reportId" IN ($1, ..., $n)
SelectCommentsIn(reportIds) ==
    SelectSeq(comments, LAMBDA c : \E i \in DOMAIN reportIds : reportIds[i] = c.reportId)

\* a grouping that attaches every fetched comment to every report
CommentsOfUngrouped(rows, reportId) == rows

\* commentsByReportId[report.id] || []
CommentsOf(rows, reportId) == SelectSeq(rows, LAMBDA c : c.reportId = reportId)

\* report.comments = ..., report.isExpired = ..., delete report.password
BuildReport(row, commentRows, t) ==
    DeletePassword([f \in (DOMAIN row) \cup {"comments", "isExpired"} |->
        IF f = "comments" THEN CommentsOf(commentRows, row.id)
        ELSE IF f = "isExpired" THEN DateParse(row.expirationDate) < t
        ELSE row[f]])

\* the first query
GetSelectReports(p) ==
    /\ calls[p].pc = "idle"
    /\ started < MaxCalls
    /\ calls' = [calls EXCEPT ![p] =
           [IdleCall EXCEPT !.op = "getOpenReports", !.pc = "get_comments",
                            !.rows = SelectOpenReports(reports)]]
    /\ started' = started + 1
    /\ UNCHANGED <<reports, comments, now, closedOk>>

\* the second query, whose IN list is empty when no report is open, and the
\* construction of the returned reports
GetSelectComments(p) ==
    /\ calls[p].pc = "get_comments"
    /\ LET rows == calls[p].rows
           reportIds == [i \in DOMAIN rows |-> rows[i].id] IN
         IF reportIds = <<>>
         THEN calls' = [calls EXCEPT ![p].pc = "done", ![p].error = ErrSyntax]
         ELSE LET commentRows == SelectCommentsIn(reportIds) IN
              calls' = [calls EXCEPT ![p].pc = "done",
                  ![p].result = [i \in DOMAIN rows |-> BuildReport(rows[i], commentRows, now)]]
    /\ UNCHANGED <<reports, comments, now, started, closedOk>>

Next ==
    \/ Tick
    \/ \E p \in Procs : Finish(p)
    \/ \E p \in Procs : createReport(p)
    \/ \E p \in Procs : CloseGetReport(p)
    \/ \E p \in Procs : CloseUpdate(p)
    \/ \E p \in Procs : CommentGetReport(p)
    \/ \E p \in Procs : CommentCheck(p)
    \/ \E p \in Procs : CommentInsert(p)
    \/ \E p \in Procs : CommentUpdate(p)
    \/ \E p \in Procs : GetSelectReports(p)
    \/ \E p \in Procs : GetSelectComments(p)

Spec == Init /\ [][Next]_vars

\* the same calls over a store whose expirationDate UPDATE may fail
NextFail ==
    \/ Next
    \/ \E p \in Procs : CommentUpdateFails(p)

SpecFail == Init /\ [][NextFail]_vars

\* ------------------------------------------------------- reading the runs
\* process p has taken a step of its call
StepOf(p) == calls'[p] # calls[p]

\* the stored row with the given id (the id must exist)
Stored(reportId) == reports[reportId]

Exists(reportId) == reportId \in DOMAIN reports

\* the call of p has read a row of its report
Saw(p) == calls[p].rows # <<>>

Succeeded(p) == calls[p].pc = "done" /\ calls[p].error = NoError

\* C1: getOpenReports never returns a report whose stored isOpen is false
\* (every row its query selects is open in the store it reads, and every
\* returned report is one of those rows), and no returned report has a
\* password field.
C1_OpenOnlyNoPassword ==
    /\ [](\A p \in Procs : calls[p].op = "getOpenReports" =>
            /\ \A i \in DOMAIN calls[p].rows : calls[p].rows[i].isOpen = TRUE
            /\ Len(calls[p].result) <= Len(calls[p].rows)
            /\ \A i \in DOMAIN calls[p].result :
                 /\ calls[p].result[i].isOpen = TRUE
                 /\ calls[p].result[i].id = calls[p].rows[i].id
                 /\ "password" \notin DOMAIN calls[p].result[i])
    /\ [][\A p \in Procs : (StepOf(p) /\ calls'[p].pc = "get_comments") =>
            \A i \in DOMAIN calls'[p].rows :
                 /\ Exists(calls'[p].rows[i].id)
                 /\ Stored(calls'[p].rows[i].id).isOpen = TRUE]_vars

\* a call has returned reports while the store also holds a closed report
C1_Witness ==
    \E p \in Procs :
        /\ calls[p].op = "getOpenReports" /\ Succeeded(p)
        /\ Len(calls[p].result) >= 1
        /\ \E i \in DOMAIN reports : ~reports[i].isOpen

\* C2: of two sequential closeReport calls with the correct password on an
\* open report, the first returns the acknowledgment with isOpen set to
\* false, and the second, started after the first has returned, fails with
\* "This report has already been closed" and changes nothing.
C2_SecondCloseFails ==
    /\ [](\A p \in Procs :
            (calls[p].op = "closeReport" /\ Saw(p)
               /\ calls[p].password = Stored(calls[p].reportId).password) =>
              /\ (~calls[p].late /\ calls[p].rows[1].isOpen /\ calls[p].pc = "done") =>
                    /\ calls[p].result = <<[message |-> MsgClosed]>>
                    /\ calls[p].error = NoError
                    /\ ~Stored(calls[p].reportId).isOpen
              /\ calls[p].late =>
                    /\ calls[p].pc = "done"
                    /\ calls[p].error = ErrAlreadyClosed
                    /\ calls[p].result = <<>>)
    /\ [][\A p \in Procs :
            (StepOf(p) /\ calls'[p].op = "closeReport" /\ calls'[p].late) =>
                UNCHANGED <<reports, comments>>]_vars

\* a second close with the correct password has run after a successful one
C2_Witness ==
    \E p \in Procs :
        /\ calls[p].op = "closeReport" /\ calls[p].late /\ calls[p].pc = "done"
        /\ Saw(p)
        /\ calls[p].password = Stored(calls[p].reportId).password
        /\ calls[p].reportId \in closedOk

\* C3: of two closeReport calls with the correct password that both read the
\* same report while it was open, at most one returns the acknowledgment
\* (the other fails with "Report not updated").
C3_AtMostOneCloseSucceeds ==
    \A p, q \in Procs :
        (/\ p # q
         /\ calls[p].op = "closeReport" /\ calls[q].op = "closeReport"
         /\ calls[p].reportId = calls[q].reportId
         /\ calls[p].rows # <<>> /\ calls[q].rows # <<>>
         /\ calls[p].rows[1].isOpen /\ calls[q].rows[1].isOpen
         /\ calls[p].pc = "done" /\ calls[q].pc = "done")
        => ~(calls[p].result = <<[message |-> MsgClosed]>>
             /\ calls[q].result = <<[message |-> MsgClosed]>>)

\* C4: when no report is open, getOpenReports returns an empty sequence and
\* does not fail.
C4_NoOpenReportsReturnsEmpty ==
    \A p \in Procs :
        (calls[p].op = "getOpenReports" /\ calls[p].pc = "done" /\ calls[p].rows = <<>>)
        => (calls[p].error = NoError /\ calls[p].result = <<>>)

\* C5: no step of a closeReport call whose password differs from the stored
\* password changes the isOpen value of any report.
C5_WrongPasswordKeepsIsOpen ==
    [][\A p \in Procs :
         (/\ StepOf(p)
          /\ calls'[p].op = "closeReport"
          /\ calls'[p].rows # <<>>
          /\ calls'[p].password # Stored(calls'[p].reportId).password)
         => /\ DOMAIN reports' = DOMAIN reports
            /\ \A i \in DOMAIN reports : reports'[i].isOpen = reports[i].isOpen]_vars

\* closeReport with a wrong password has run to its end, on an open and on
\* a closed report
C5_Witness ==
    /\ \E p \in Procs :
        /\ calls[p].op = "closeReport" /\ calls[p].pc = "done"
        /\ Saw(p)
        /\ calls[p].password # Stored(calls[p].reportId).password
        /\ calls[p].error = ErrPassword
        /\ calls[p].rows[1].isOpen
    /\ \E q \in Procs :
        /\ calls[q].op = "closeReport" /\ calls[q].pc = "done"
        /\ Saw(q)
        /\ calls[q].password # Stored(calls[q].reportId).password
        /\ ~calls[q].rows[1].isOpen

\* C6: createReportComment whose guards run on a report that is open and
\* whose expirationDate is earlier than the current time fails with the
\* 'expired' error, inserts no comment row and leaves the report's
\* expirationDate unchanged.
C6_ExpiredOpenRejected ==
    [][\A p \in Procs :
         (/\ StepOf(p)
          /\ calls[p].pc = "comment_check"
          /\ Saw(p)
          /\ Stored(calls[p].reportId).isOpen
          /\ Stored(calls[p].reportId).expirationDate < now)
         => /\ calls'[p].pc = "done"
            /\ calls'[p].error = ErrCommentExpired
            /\ calls'[p].result = <<>>
            /\ comments' = comments
            /\ reports' = reports]_vars

\* a comment call has failed as expired on a report that is still open and
\* still expired
C6_Witness ==
    \E p \in Procs :
        /\ calls[p].op = "createReportComment" /\ calls[p].pc = "done"
        /\ calls[p].error = ErrCommentExpired
        /\ Stored(calls[p].reportId).isOpen
        /\ Stored(calls[p].reportId).expirationDate < now

\* C7: a createReportComment that starts after closeReport has returned its
\* acknowledgment for the report fails with the 'has been closed' error and
\* inserts no comment row, whatever the report's expirationDate.
C7_NoCommentAfterClose ==
    /\ [](\A p \in Procs :
            (calls[p].op = "createReportComment" /\ calls[p].late) =>
               /\ calls[p].pc \in {"comment_check", "done"}
               /\ calls[p].result = <<>>
               /\ calls[p].pc = "done" => calls[p].error = ErrCommentClosed)
    /\ [][\A p \in Procs :
            (StepOf(p) /\ calls'[p].op = "createReportComment" /\ calls'[p].late) =>
                comments' = comments]_vars

\* a comment on a closed report that is also expired has been refused
C7_Witness ==
    \E p \in Procs :
        /\ calls[p].op = "createReportComment" /\ calls[p].late
        /\ calls[p].pc = "done"
        /\ calls[p].reportId \in closedOk
        /\ Stored(calls[p].reportId).expirationDate < now

\* C8: isOpen is monotonic: no step takes a report's stored isOpen from
\* false to true, and no report row disappears.
C8_IsOpenMonotonic ==
    [][/\ DOMAIN reports \subseteq DOMAIN reports'
       /\ \A i \in DOMAIN reports : ~reports[i].isOpen => ~reports'[i].isOpen]_vars

\* a closed report has been the target of a further closeReport UPDATE
C8_Witness ==
    \E p, q \in Procs :
        /\ p # q
        /\ calls[p].op = "closeReport" /\ calls[q].op = "closeReport"
        /\ calls[p].reportId = calls[q].reportId
        /\ Succeeded(p) /\ Succeeded(q)
        /\ ~Stored(calls[p].reportId).isOpen

\* C9: with the non-decreasing clock, no step decreases the stored
\* expirationDate of a report.
C9_ExpirationNeverDecreases ==
    [][\A i \in DOMAIN reports :
          /\ i \in DOMAIN reports'
          /\ reports'[i].expirationDate >= reports[i].expirationDate]_vars

\* an accepted comment has moved the expirationDate past the one the call read
C9_Witness ==
    \E p \in Procs :
        /\ calls[p].op = "createReportComment" /\ Succeeded(p)
        /\ Stored(calls[p].reportId).expirationDate > calls[p].rows[1].expirationDate

\* C10: a successful createReportComment adds exactly one comment row, with
\* the given reportId, returns that row, and sets the report's
\* expirationDate to the current time plus one day.
C10_CommentInsertedAndDeadlineReset ==
    /\ [][\A p \in Procs :
            (StepOf(p) /\ calls'[p].op = "createReportComment") =>
               /\ calls[p].pc = "comment_insert" =>
                    /\ Len(comments') = Len(comments) + 1
                    /\ SubSeq(comments', 1, Len(comments)) = comments
                    /\ comments'[Len(comments')].reportId = calls[p].reportId
                    /\ comments'[Len(comments')].content = calls[p].content
                    /\ calls'[p].result = <<comments'[Len(comments')]>>
                    /\ reports' = reports
               /\ calls[p].pc # "comment_insert" => comments' = comments
               /\ calls[p].pc = "comment_update" =>
                    /\ calls'[p].pc = "done" /\ calls'[p].error = NoError
                    /\ calls'[p].result = calls[p].result
                    /\ reports'[calls[p].reportId].expirationDate = now + Day
                    /\ \A i \in DOMAIN reports : i # calls[p].reportId => reports'[i] = reports[i]
               /\ calls[p].pc # "comment_update" => reports' = reports]_vars
    /\ [](\A p \in Procs :
            (calls[p].op = "createReportComment" /\ Succeeded(p)) =>
               /\ Len(calls[p].result) = 1
               /\ calls[p].result[1].reportId = calls[p].reportId
               /\ calls[p].result[1].id \in DOMAIN comments
               /\ comments[calls[p].result[1].id] = calls[p].result[1]
               /\ Cardinality({i \in DOMAIN comments : comments[i] = calls[p].result[1]}) = 1)

\* a comment has been accepted at a time when the old expirationDate plus one
\* day differs from the current time plus one day
C10_Witness ==
    \E p \in Procs :
        /\ calls[p].op = "createReportComment" /\ Succeeded(p)
        /\ Stored(calls[p].reportId).expirationDate = now + Day
        /\ calls[p].rows[1].expirationDate + Day # now + Day

\* no other call is in flight, and nothing has written the report of p since
\* p read it
Alone(p) ==
    /\ \A q \in Procs \ {p} : calls[q].pc \in {"idle", "done"}
    /\ Saw(p)
    /\ Stored(calls[p].reportId) = calls[p].rows[1]

\* C11: run without interleaving, createReportComment on an existing report
\* passes its guards if and only if the report's isOpen is true and its
\* expirationDate is greater than or equal to the current time.
C11_AcceptedIffOpenAndNotExpired ==
    [][\A p \in Procs :
         (StepOf(p) /\ calls[p].pc = "comment_check" /\ Alone(p)) =>
            ((calls'[p].pc = "comment_insert" /\ calls'[p].error = NoError)
               <=> (/\ Stored(calls[p].reportId).isOpen
                    /\ Stored(calls[p].reportId).expirationDate >= now))]_vars

\* C12: closeReport on an id with no report row fails with "Report does not
\* exist with that id", whatever the password, and changes no report or
\* comment row.
C12_CloseMissingReport ==
    /\ [][\A p \in Procs :
            (/\ StepOf(p)
             /\ calls'[p].op = "closeReport"
             /\ calls'[p].rows = <<>>)
            => /\ calls'[p].pc = "done"
               /\ calls'[p].error = ErrCloseNotFound
               /\ calls'[p].result = <<>>
               /\ reports' = reports
               /\ comments' = comments]_vars
    /\ [][\A p \in Procs :
            (StepOf(p) /\ calls[p].pc = "idle" /\ calls'[p].op = "closeReport") =>
               (calls'[p].rows = <<>> <=> ~Exists(calls'[p].reportId))]_vars

\* closeReport has failed on a missing id while the store holds rows
C12_Witness ==
    \E p \in Procs :
        /\ calls[p].op = "closeReport" /\ calls[p].pc = "done"
        /\ ~Exists(calls[p].reportId)
        /\ calls[p].error = ErrCloseNotFound
        /\ reports # <<>> /\ comments # <<>>

\* C13: for every report getOpenReports returns, the comments field is
\* present and is exactly the stored comment rows whose reportId is that
\* report's id: an empty sequence when there are none.
C13_CommentsAttached ==
    [][\A p \in Procs :
         (StepOf(p) /\ calls[p].pc = "get_comments" /\ calls'[p].error = NoError) =>
            /\ Len(calls'[p].result) = Len(calls[p].rows)
            /\ \A i \in DOMAIN calls'[p].result :
                 LET r == calls'[p].result[i] IN
                   /\ "comments" \in DOMAIN r
                   /\ r.comments = SelectSeq(comments, LAMBDA c : c.reportId = r.id)
                   /\ \A j \in DOMAIN comments :
                        comments[j].reportId = r.id =>
                           \E k \in DOMAIN r.comments : r.comments[k] = comments[j]
                   /\ \A k \in DOMAIN r.comments : r.comments[k].reportId = r.id
                   /\ (~\E j \in DOMAIN comments : comments[j].reportId = r.id)
                         => r.comments = <<>>]_vars

\* two reports have been returned, one with a comment and one with none
C13_Witness ==
    \E p \in Procs :
        /\ calls[p].op = "getOpenReports" /\ Succeeded(p)
        /\ \E i, j \in DOMAIN calls[p].result :
             /\ calls[p].result[i].comments # <<>>
             /\ calls[p].result[j].comments = <<>>

\* C14: no step changes the stored password of a report.
C14_PasswordImmutable ==
    [][\A i \in DOMAIN reports :
          /\ i \in DOMAIN reports'
          /\ reports'[i].password = reports[i].password]_vars

\* a report has been commented on and then closed, by two finished calls
C14_Witness ==
    \E p, q \in Procs :
        /\ calls[p].op = "closeReport" /\ Succeeded(p)
        /\ calls[q].op = "createReportComment" /\ Succeeded(q)
        /\ calls[p].reportId = calls[q].reportId
        /\ ~Stored(calls[p].reportId).isOpen
        /\ Stored(calls[p].reportId).password = calls[p].password

\* C15: closeReport reports the first failing guard in the order exists,
\* password matches, is open: on a closed report a wrong password gives
\* 'Password incorrect', not 'already been closed'.
C15_CloseGuardOrder ==
    \A p \in Procs :
        (calls[p].op = "closeReport" /\ calls[p].pc = "done") =>
           /\ calls[p].rows = <<>> => calls[p].error = ErrCloseNotFound
           /\ (Saw(p) /\ calls[p].rows[1].password # calls[p].password)
                 => calls[p].error = ErrPassword
           /\ (Saw(p) /\ calls[p].rows[1].password = calls[p].password
                      /\ ~calls[p].rows[1].isOpen)
                 => calls[p].error = ErrAlreadyClosed
           /\ (Saw(p) /\ calls[p].rows[1].password = calls[p].password
                      /\ calls[p].rows[1].isOpen)
                 => calls[p].error \in {NoError, ErrNotUpdated}

\* a wrong password on a report read as closed got 'Password incorrect'
C15_Witness ==
    \E p \in Procs :
        /\ calls[p].op = "closeReport" /\ calls[p].pc = "done"
        /\ Saw(p)
        /\ ~calls[p].rows[1].isOpen
        /\ calls[p].rows[1].password # calls[p].password
        /\ calls[p].error = ErrPassword

\* C16: createReportComment reports the first failing guard in the order
\* exists, is open, not expired: on a report that is closed and expired it
\* fails with 'has been closed', not with 'expired'.
C16_CommentGuardOrder ==
    [][\A p \in Procs :
         (StepOf(p) /\ calls[p].pc = "comment_check") =>
            LET rows == calls[p].rows IN
              /\ rows = <<>> => calls'[p].error = ErrCommentNotFound
              /\ (rows # <<>> /\ ~rows[1].isOpen) => calls'[p].error = ErrCommentClosed
              /\ (rows # <<>> /\ rows[1].isOpen /\ rows[1].expirationDate < now)
                    => calls'[p].error = ErrCommentExpired
              /\ calls'[p].error # NoError =>
                    /\ calls'[p].pc = "done"
                    /\ comments' = comments /\ reports' = reports]_vars

\* a comment on a report read as closed whose expirationDate has passed got
\* 'has been closed'
C16_Witness ==
    \E p \in Procs :
        /\ calls[p].op = "createReportComment" /\ calls[p].pc = "done"
        /\ Saw(p)
        /\ ~calls[p].rows[1].isOpen
        /\ calls[p].rows[1].expirationDate < now
        /\ Stored(calls[p].reportId).expirationDate < now
        /\ calls[p].error = ErrCommentClosed

\* C17: createReportComment's two writes are not atomic: when the store
\* fails on the UPDATE after the INSERT, the call ends with an error, the
\* inserted comment row stays in the table and the report keeps its old
\* expirationDate.
C17_FailedUpdateKeepsComment ==
    [][\A p \in Procs :
         (StepOf(p) /\ calls[p].pc = "comment_update" /\ calls'[p].result = <<>>) =>
            /\ calls'[p].pc = "done"
            /\ calls'[p].error # NoError
            /\ comments' = comments
            /\ calls[p].result[1].id \in DOMAIN comments'
            /\ comments'[calls[p].result[1].id] = calls[p].result[1]
            /\ comments'[calls[p].result[1].id].reportId = calls[p].reportId
            /\ reports' = reports]_vars

\* a call has failed on its UPDATE; its comment is stored and the report
\* still has the expirationDate the call read
C17_Witness ==
    \E p \in Procs :
        /\ calls[p].op = "createReportComment" /\ calls[p].pc = "done"
        /\ calls[p].error = ErrStore
        /\ \E j \in DOMAIN comments : comments[j].reportId = calls[p].reportId
        /\ Stored(calls[p].reportId).expirationDate = calls[p].rows[1].expirationDate
        /\ Stored(calls[p].reportId).expirationDate # now + Day

\* the comment rows a step has added
NewCommentRows == {j \in DOMAIN comments' : j \notin DOMAIN comments}

\* the stored comment rows of a report
StoredCommentsOf(cs, reportId) == SelectSeq(cs, LAMBDA c : c.reportId = reportId)

\* C18 as claimed: under any interleaving of createReportComment and
\* closeReport, a comment row is inserted only while the report's stored
\* isOpen is true, and a closed report's comments and expirationDate are
\* never modified.
C18_NoWriteOnClosedReport ==
    [][/\ \A j \in NewCommentRows : Stored(comments'[j].reportId).isOpen
       /\ \A i \in DOMAIN reports :
            ~reports[i].isOpen =>
               /\ reports'[i].expirationDate = reports[i].expirationDate
               /\ StoredCommentsOf(comments', i) = StoredCommentsOf(comments, i)]_vars

\* C18 (amended): under any interleaving of createReportComment and
\* closeReport, a comment row is inserted and a report's expirationDate is
\* modified only by a createReportComment call whose _getReport read the
\* report with isOpen true, before any closeReport acknowledgment for it.
C18_WritesOnlyByCallsThatReadOpen ==
    [][/\ \A j \in NewCommentRows :
            \E p \in Procs :
               /\ StepOf(p) /\ calls[p].op = "createReportComment"
               /\ calls[p].pc = "comment_insert"
               /\ calls[p].reportId = comments'[j].reportId
               /\ Saw(p) /\ calls[p].rows[1].isOpen /\ ~calls[p].late
       /\ \A i \in DOMAIN reports :
            reports'[i].expirationDate # reports[i].expirationDate =>
               \E p \in Procs :
                  /\ StepOf(p) /\ calls[p].op = "createReportComment"
                  /\ calls[p].pc = "comment_update"
                  /\ calls[p].reportId = i
                  /\ Saw(p) /\ calls[p].rows[1].isOpen /\ ~calls[p].late]_vars

\* a call that read the report open has inserted its comment and faces a
\* report that a closeReport has closed and acknowledged
C18_Witness ==
    \E p \in Procs :
        /\ calls[p].op = "createReportComment" /\ calls[p].pc = "comment_update"
        /\ calls[p].rows[1].isOpen /\ ~calls[p].late
        /\ calls[p].result # <<>>
        /\ comments[Len(comments)] = calls[p].result[1]
        /\ ~Stored(calls[p].reportId).isOpen
        /\ calls[p].reportId \in closedOk

====
